---- MODULE Spec2Model ----
(***************************************************************************)
(* State-machine model of the task queue / settlement core of              *)
(* monodo-server (Django): product/views.py, transaction/views.py,         *)
(* level/views.py.                                                         *)
(*                                                                         *)
(* The state is the content of the database tables the handlers read and   *)
(* write (users, product_reviews, products, levels, transactions).  Each   *)
(* action is one HTTP handler, run to completion.  Money is held in        *)
(* cents (DecimalField(max_digits=10, decimal_places=2)); a nullable       *)
(* column is a sequence of length 0 (NULL) or 1.                           *)
(***************************************************************************)
EXTENDS Integers, Sequences, FiniteSets, TLC

(***************************************************************************)
(* Nullable columns                                                        *)
(***************************************************************************)
Null == << >>
Some(v) == << v >>
IsNull(x) == x = << >>
Val(x) == x[1]

(***************************************************************************)
(* Bounds of the model                                                     *)
(***************************************************************************)
\* number of handler calls in one behaviour
MaxOps == 4
\* last calendar day the clock reaches (day 0 is the first)
MaxDay == 1
\* number of rows the transactions table can hold
MaxTx == 1
\* number of handler calls in one behaviour of SpecServe
MaxServeOps == 5
\* number of dashboard calls and deposit requests in one behaviour of SpecRace
MaxRaceOps == 1
\* number of catalog repositionings in one behaviour of SpecCatalog
MaxCatalogOps == 1
\* largest position a catalog starts with or a reposition request names
MaxPosition == 5

(***************************************************************************)
(* The fixed part of the database: accounts, catalog, tiers                *)
(***************************************************************************)
\* user 1 is the participant whose requests are modelled; user 2 is the
\* account user 1 points to as original_account when it is a training account
Participant == 1
OriginAccount == 2
Users == {Participant, OriginAccount}

Products == {1, 2, 3, 4}
Levels == {1, 2}

\* products.price, in cents
Price(p) == CASE p = 1 -> 7000 [] p = 2 -> 3000 [] p = 3 -> 2000 [] OTHER -> 7000
\* products.status
ProductStatus(p) == IF p = 3 THEN "INACTIVE" ELSE "ACTIVE"
\* products.use_actual_price
ProductUseActualPrice(p) == FALSE
\* products.levels (many-to-many)
ProductLevels(p) == CASE p = 1 -> {1} [] p = 2 -> {2} [] p = 3 -> {1} [] OTHER -> {1, 2}
\* levels.min_orders
MinOrders(lv) == 2
\* levels.price_min_percent, levels.price_max_percent (level 1 has the defaults)
PriceMinPercent(lv) == IF lv = 1 THEN 30 ELSE 40
PriceMaxPercent(lv) == IF lv = 1 THEN 70 ELSE 60

\* amounts the operator credits or debits, and of deposit / withdrawal requests
Amounts == {10000}
\* balances an account starts with
StartBalances == {5000, 10000}
\* levels.commission_rate values an operator configures (percent)
Rates == {10, 20}

VARIABLES
    balance,                  \* users.balance
    balance_frozen,           \* users.balance_frozen
    balance_frozen_amount,    \* users.balance_frozen_amount (nullable)
    completed_products_count, \* users.completed_products_count
    user_level,               \* users.level (nullable foreign key)
    is_training_account,      \* users.is_training_account
    original_account,         \* users.original_account (nullable foreign key)
    reviews,                  \* product_reviews: [user][product] -> NULL or row
    product_position,         \* products.position
    commission_rate,          \* levels.commission_rate
    frozen_commission_rate,   \* levels.frozen_commission_rate (nullable)
    start_continuous_orders_after, \* levels.start_continuous_orders_after (nullable)
    transactions,             \* transactions: id -> NULL or row
    today,                    \* the calendar day timezone.now() falls in
    ops,                      \* number of handler calls the run still allows
    last,                     \* the last handler call
    pre,                      \* the rows as they were before the last call
    topup,                    \* progress of a freeze / credit / resubmit sequence
    served,                   \* the queues the last two dashboard calls built
    agreed_first,             \* per product, the first agreed_price of the participant's row
    race                      \* the requests in flight: position and loaded rows

vars == << balance, balance_frozen, balance_frozen_amount,
           completed_products_count, user_level, is_training_account,
           original_account, reviews, product_position, commission_rate,
           frozen_commission_rate, start_continuous_orders_after,
           transactions, today, ops, last, pre, topup, served, agreed_first, race >>

\* the rows a handler can change, as one record (kept in pre)
Rows == [ balance |-> balance,
          balance_frozen |-> balance_frozen,
          balance_frozen_amount |-> balance_frozen_amount,
          completed_products_count |-> completed_products_count,
          user_level |-> user_level,
          is_training_account |-> is_training_account,
          original_account |-> original_account,
          reviews |-> reviews,
          product_position |-> product_position,
          commission_rate |-> commission_rate,
          frozen_commission_rate |-> frozen_commission_rate,
          start_continuous_orders_after |-> start_continuous_orders_after,
          transactions |-> transactions ]

(***************************************************************************)
(* Decimal arithmetic                                                      *)
(***************************************************************************)
\* n / d rounded to an integer, ties to the even neighbour: what storing a
\* Decimal in a DecimalField with 2 places does to a longer fraction
\* (django.db.backends.utils.format_number quantizes under the default
\* decimal context, ROUND_HALF_EVEN).  d > 0.
Quantize(n, d) ==
    LET q == n \div d
        r == n % d
    IN  IF 2 * r < d THEN q
        ELSE IF 2 * r > d THEN q + 1
        ELSE IF q % 2 = 0 THEN q ELSE q + 1

\* Decimal('6.00'): the rate used when levels.frozen_commission_rate is NULL
FallbackFrozenRate == 6
\* Decimal('30'): the share of a commission paid to the original account
OriginBonusPercent == 30

(***************************************************************************)
(* submit_product_review                                                   *)
(***************************************************************************)
\* a row of product_reviews as ProductReview.objects.create / get_or_create
\* leaves the columns it is not given
NewReview == [ status |-> "PENDING",
               commission_earned |-> 0,
               agreed_price |-> Null,
               completed_at |-> Null,
               use_frozen_commission |-> FALSE,
               use_actual_price |-> FALSE,
               position |-> Null ]

HasReview(s, u, p) == ~IsNull(s.reviews[u][p])
Review(s, u, p) == Val(s.reviews[u][p])

\* SubmitProductReviewSerializer.validate: the request is accepted
SubmitValid(s, u, p) ==
    /\ p \in Products
    /\ ProductStatus(p) = "ACTIVE"
    /\ ~IsNull(s.user_level[u])

\* product_price
SubmitPrice(s, u, p) ==
    IF HasReview(s, u, p) /\ Review(s, u, p).use_actual_price THEN Price(p)
    ELSE IF ProductUseActualPrice(p) THEN Price(p)
    ELSE IF HasReview(s, u, p) /\ ~IsNull(Review(s, u, p).agreed_price)
         THEN Val(Review(s, u, p).agreed_price)
    ELSE Price(p)

\* was_previously_completed
WasPreviouslyCompleted(s, u, p) ==
    HasReview(s, u, p) /\ Review(s, u, p).status = "COMPLETED"

\* is_frozen_pending
IsFrozenPending(s, u, p) ==
    /\ HasReview(s, u, p)
    /\ Review(s, u, p).use_frozen_commission
    /\ s.balance_frozen[u]
    /\ ~IsNull(s.balance_frozen_amount[u])

\* review_status
SubmitStatus(s, u, p) ==
    IF IsFrozenPending(s, u, p)
    THEN IF Val(s.balance_frozen_amount[u]) >= SubmitPrice(s, u, p)
         THEN "COMPLETED" ELSE "PENDING"
    ELSE IF s.balance[u] < SubmitPrice(s, u, p) THEN "PENDING"
    ELSE "COMPLETED"
\* commission_rate taken from the level's normal rate whatever the row says
SubmitRate_AlwaysNormal(s, u, p) ==
    IF IsNull(s.user_level[u]) THEN 0
    ELSE s.commission_rate[Val(s.user_level[u])]

\* commission_rate (percent); the serializer has rejected a user without level
SubmitRate(s, u, p) ==
    IF IsNull(s.user_level[u]) THEN 0
    ELSE LET lv == Val(s.user_level[u])
         IN  IF HasReview(s, u, p) /\ Review(s, u, p).use_frozen_commission
             THEN IF IsNull(s.frozen_commission_rate[lv])
                  THEN FallbackFrozenRate
                  ELSE Val(s.frozen_commission_rate[lv])
             ELSE s.commission_rate[lv]

\* commission_amount, in hundredths of a cent (price * rate / 100 is a
\* Decimal with up to four places)
CommissionAmount(s, u, p) == SubmitPrice(s, u, p) * SubmitRate(s, u, p)

\* should_process_commission
ShouldProcessCommission(s, u, p) ==
    /\ SubmitStatus(s, u, p) = "COMPLETED"
    /\ (~HasReview(s, u, p) \/ ~WasPreviouslyCompleted(s, u, p))

\* the product_reviews row after the save / create of the atomic block
SubmitReview(s, u, p, now) ==
    LET st == SubmitStatus(s, u, p)
        old == IF HasReview(s, u, p) THEN Review(s, u, p) ELSE NewReview
    IN  [ old EXCEPT
            !.status = st,
            !.commission_earned =
                IF st = "COMPLETED"
                THEN Quantize(CommissionAmount(s, u, p), 100) ELSE 0,
            !.completed_at = IF st = "COMPLETED" THEN Some(now) ELSE Null,
            !.use_frozen_commission =
                IF st = "PENDING" THEN TRUE
                ELSE IF HasReview(s, u, p) THEN old.use_frozen_commission
                ELSE FALSE ]

\* users.balance of the submitting user after a completion
CreditedBalance(s, u, p) ==
    IF IsFrozenPending(s, u, p) /\ s.balance_frozen[u]
    THEN Quantize(Val(s.balance_frozen_amount[u]) * 100
                    + CommissionAmount(s, u, p), 100)
    ELSE Quantize(s.balance[u] * 100 + CommissionAmount(s, u, p), 100)

\* users.balance of the original account after a completion
OriginBalance(s, u, p) ==
    Quantize(s.balance[Val(s.original_account[u])] * 10000
               + CommissionAmount(s, u, p) * OriginBonusPercent, 10000)

\* SubmitCompleted clearing balance_frozen and leaving the snapshot in place
SubmitCompleted_KeepsSnapshot(s, u, p) ==
    LET paysOrigin == s.is_training_account[u] /\ ~IsNull(s.original_account[u])
        b1 == IF paysOrigin
              THEN [s.balance EXCEPT ![Val(s.original_account[u])] =
                                          OriginBalance(s, u, p)]
              ELSE s.balance
    IN  [ s EXCEPT
            !.balance = [b1 EXCEPT ![u] = CreditedBalance(s, u, p)],
            !.balance_frozen[u] = FALSE,
            !.completed_products_count[u] = @ + 1 ]
\* SubmitCompleted without the F() increment of completed_products_count
SubmitCompleted_NoIncrement(s, u, p) ==
    LET paysOrigin == s.is_training_account[u] /\ ~IsNull(s.original_account[u])
        b1 == IF paysOrigin
              THEN [s.balance EXCEPT ![Val(s.original_account[u])] =
                                          OriginBalance(s, u, p)]
              ELSE s.balance
    IN  [ s EXCEPT
            !.balance = [b1 EXCEPT ![u] = CreditedBalance(s, u, p)],
            !.balance_frozen[u] = FALSE,
            !.balance_frozen_amount[u] = Null ]

\* the users rows after the atomic block, on the completing branch
SubmitCompleted(s, u, p) ==
    LET paysOrigin == s.is_training_account[u] /\ ~IsNull(s.original_account[u])
        b1 == IF paysOrigin
              THEN [s.balance EXCEPT ![Val(s.original_account[u])] =
                                          OriginBalance(s, u, p)]
              ELSE s.balance
    IN  [ s EXCEPT
            !.balance = [b1 EXCEPT ![u] = CreditedBalance(s, u, p)],
            !.balance_frozen[u] = FALSE,
            !.balance_frozen_amount[u] = Null,
            !.completed_products_count[u] = @ + 1 ]

\* SubmitFrozen taking the snapshot after the debit instead of before it
SubmitFrozen_SnapshotAfterDebit(s, u, p) ==
    [ s EXCEPT
        !.balance[u] = s.balance[u] - SubmitPrice(s, u, p),
        !.balance_frozen[u] = TRUE,
        !.balance_frozen_amount[u] = Some(s.balance[u] - SubmitPrice(s, u, p)) ]

\* the users row after the atomic block, on the freezing branch
SubmitFrozen(s, u, p) ==
    [ s EXCEPT
        !.balance[u] = s.balance[u] - SubmitPrice(s, u, p),
        !.balance_frozen[u] = TRUE,
        !.balance_frozen_amount[u] = Some(s.balance[u]) ]
\* SubmitRows debiting the price on every PENDING outcome, frozen or not
SubmitRows_DebitsAgain(s, u, p, now) ==
    IF ~SubmitValid(s, u, p) THEN s
    ELSE LET s1 == IF ShouldProcessCommission(s, u, p)
                      THEN SubmitCompleted(s, u, p)
                   ELSE IF SubmitStatus(s, u, p) = "PENDING"
                      THEN SubmitFrozen(s, u, p)
                   ELSE s
         IN  [ s1 EXCEPT !.reviews[u][p] = Some(SubmitReview(s, u, p, now)) ]

\* the database after submit_product_review(user u, product_id p) on day now
SubmitRows(s, u, p, now) ==
    IF ~SubmitValid(s, u, p) THEN s
    ELSE LET s1 == IF ShouldProcessCommission(s, u, p)
                      THEN SubmitCompleted(s, u, p)
                   ELSE IF SubmitStatus(s, u, p) = "PENDING"
                           /\ ~s.balance_frozen[u]
                      THEN SubmitFrozen(s, u, p)
                   ELSE s
         IN  [ s1 EXCEPT !.reviews[u][p] = Some(SubmitReview(s, u, p, now)) ]

(***************************************************************************)
(* add_balance, approve_transaction, reject_transaction, my_deposit,       *)
(* withdraw_amount                                                         *)
(***************************************************************************)
TxIds == 1 .. MaxTx

\* the database after add_balance(member_account u, type kind, amount)
AddBalanceRows(s, u, kind, amount) ==
    [ s EXCEPT !.balance[u] =
        IF kind = "CREDIT" THEN @ + amount ELSE @ - amount ]

\* the database after my_deposit (POST) / withdraw_amount stored row t
CreateTransactionRows(s, t, type, amount) ==
    [ s EXCEPT !.transactions[t] =
        Some([ type |-> type, amount |-> amount, status |-> "PENDING" ]) ]

\* WithdrawSerializer.validate: the balance covers the requested amount
WithdrawValid(s, u, amount) == s.balance[u] >= amount

\* the database after approve_transaction(t); every row belongs to u
ApproveRows(s, u, t) ==
    IF IsNull(s.transactions[t]) THEN s
    ELSE LET tx == Val(s.transactions[t])
         IN  IF tx.status = "COMPLETED" THEN s
             ELSE IF tx.type = "DEPOSIT"
             THEN [ s EXCEPT !.transactions[t] = Some([tx EXCEPT !.status = "COMPLETED"]),
                             !.balance[u] = @ + tx.amount ]
             ELSE IF s.balance[u] < tx.amount
             THEN [ s EXCEPT !.transactions[t] = Some([tx EXCEPT !.status = "FAILED"]) ]
             ELSE [ s EXCEPT !.transactions[t] = Some([tx EXCEPT !.status = "COMPLETED"]),
                             !.balance[u] = @ - tx.amount ]

\* the database after reject_transaction(t)
RejectRows(s, u, t) ==
    IF IsNull(s.transactions[t]) THEN s
    ELSE LET tx == Val(s.transactions[t])
             s1 == IF tx.status = "COMPLETED"
                   THEN [ s EXCEPT !.balance[u] =
                            IF tx.type = "DEPOSIT" THEN @ - tx.amount
                            ELSE @ + tx.amount ]
                   ELSE s
         IN  [ s1 EXCEPT !.transactions[t] = Some([tx EXCEPT !.status = "FAILED"]) ]

(***************************************************************************)
(* insert_product_at_position                                              *)
(***************************************************************************)
\* ShiftPositions with position__gt in place of position__gte when a
\* template moves earlier
ShiftPositions_ExclusiveStart(pos, p, position) ==
    LET current == pos[p]
    IN  IF position = current THEN pos
        ELSE IF current = 0
        THEN [ q \in Products |->
                 IF q = p THEN position
                 ELSE IF pos[q] >= position THEN pos[q] + 1 ELSE pos[q] ]
        ELSE IF position < current
        THEN [ q \in Products |->
                 IF q = p THEN position
                 ELSE IF pos[q] > position /\ pos[q] < current
                      THEN pos[q] + 1 ELSE pos[q] ]
        ELSE [ q \in Products |->
                 IF q = p THEN position
                 ELSE IF pos[q] > current /\ pos[q] <= position
                      THEN pos[q] - 1 ELSE pos[q] ]

\* products.position of every product after the range shift of the atomic
\* block; pos is the column before, position the validated request value
ShiftPositions(pos, p, position) ==
    LET current == pos[p]
    IN  IF position = current THEN pos
        ELSE IF current = 0
        THEN [ q \in Products |->
                 IF q = p THEN position
                 ELSE IF pos[q] >= position THEN pos[q] + 1 ELSE pos[q] ]
        ELSE IF position < current
        THEN [ q \in Products |->
                 IF q = p THEN position
                 ELSE IF pos[q] >= position /\ pos[q] < current
                      THEN pos[q] + 1 ELSE pos[q] ]
        ELSE [ q \in Products |->
                 IF q = p THEN position
                 ELSE IF pos[q] > current /\ pos[q] <= position
                      THEN pos[q] - 1 ELSE pos[q] ]

\* the participant's product_reviews row after the target_user branch
PinnedReview(s, u, p, position) ==
    LET reopened ==
            IF HasReview(s, u, p) /\ Review(s, u, p).status = "COMPLETED"
            THEN [ Review(s, u, p) EXCEPT
                     !.status = "PENDING",
                     !.completed_at = Null,
                     !.commission_earned = 0,
                     !.agreed_price = Null,
                     !.use_frozen_commission = FALSE ]
            ELSE IF HasReview(s, u, p) THEN Review(s, u, p)
            ELSE NewReview
    IN  [ reopened EXCEPT !.use_actual_price = TRUE,
                          !.position = Some(position) ]

\* the database after insert_product_at_position(p, position) with no user_id
InsertGlobalRows(s, p, position) ==
    [ s EXCEPT !.product_position = ShiftPositions(s.product_position, p, position) ]

\* insert_product_at_position that takes a re-opened task back out of the
\* participant's completed count
InsertForUserRows_Uncounts(s, u, p, position) ==
    [ InsertGlobalRows(s, p, position) EXCEPT
        !.reviews[u][p] = Some(PinnedReview(s, u, p, position)),
        !.completed_products_count[u] =
            IF HasReview(s, u, p) /\ Review(s, u, p).status = "COMPLETED"
               /\ s.completed_products_count[u] > 0
            THEN s.completed_products_count[u] - 1
            ELSE s.completed_products_count[u] ]

\* the database after insert_product_at_position(p, position, user_id = u)
InsertForUserRows(s, u, p, position) ==
    [ InsertGlobalRows(s, p, position) EXCEPT
        !.reviews[u][p] = Some(PinnedReview(s, u, p, position)) ]

\* request.data['position']: absent (or JSON null), a JSON number, a string
\* holding the decimal literal of a number, or a string holding no number;
\* numbers are carried in tenths, so tenths 15 is 1.5 and tenths 20 is 2
PositionInputs ==
    { [ json |-> "absent", tenths |-> 0 ], [ json |-> "text", tenths |-> 0 ] }
    \cup { [ json |-> j, tenths |-> k ] :
               j \in { "number", "string" }, k \in { -10, -5, 10, 15 } }

\* int(position): Some(n), or Null when int() raises ValueError or TypeError.
\* int() of a float truncates toward zero; int() of a string accepts only an
\* integer literal
IntOf(raw) ==
    CASE raw.json = "number" ->
             Some(IF raw.tenths >= 0 THEN raw.tenths \div 10
                  ELSE 0 - ((0 - raw.tenths) \div 10))
      [] raw.json = "string" ->
             IF raw.tenths % 10 = 0 THEN Some(raw.tenths \div 10) ELSE Null
      [] OTHER -> Null

\* the people who call insert_product_at_position, and User.created_by
Operators == { "admin", "creator", "other" }
CreatedBy(u) == "creator"

\* ids a request may carry: rows of the table and ids of no row
ProductIds == { 1, 2, 9 }
UserIds == { Null, Some(Participant), Some(9) }

\* the HTTP status insert_product_at_position answers with
InsertStatus(operator, product_id, raw, user_id) ==
    IF product_id \notin Products THEN 404
    ELSE IF raw.json = "absent" THEN 400
    ELSE IF IsNull(IntOf(raw)) THEN 400
    ELSE IF Val(IntOf(raw)) < 0 THEN 400
    ELSE IF ~IsNull(user_id) /\ Val(user_id) # Participant THEN 404
    ELSE IF ~IsNull(user_id) /\ operator # "admin"
            /\ CreatedBy(Val(user_id)) # operator THEN 403
    ELSE 200

\* the database after insert_product_at_position as the request carries it
InsertProductAtPosition(s, operator, product_id, raw, user_id) ==
    IF InsertStatus(operator, product_id, raw, user_id) # 200 THEN s
    ELSE IF IsNull(user_id)
         THEN InsertGlobalRows(s, product_id, Val(IntOf(raw)))
         ELSE InsertForUserRows(s, Val(user_id), product_id, Val(IntOf(raw)))

(***************************************************************************)
(* continuous orders, removal                                              *)
(***************************************************************************)
Max(a, b) == IF a >= b THEN a ELSE b

\* _get_start_continuous_orders_after
StartContinuousOrdersAfter(s, u) ==
    IF IsNull(s.user_level[u]) THEN 0
    ELSE LET lv == Val(s.user_level[u])
         IN  IF ~IsNull(s.start_continuous_orders_after[lv])
             THEN Max(0, Val(s.start_continuous_orders_after[lv]))
             ELSE Max(0, MinOrders(lv) - 10)

\* products whose review of user u has a position >= from
PositionedFrom(s, u, from) ==
    { q \in Products : /\ HasReview(s, u, q)
                       /\ ~IsNull(Review(s, u, q).position)
                       /\ Val(Review(s, u, q).position) >= from }
\* _get_next_continuous_position counting position__gt in place of
\* position__gte
NextContinuousPosition_CountsAfter(s, u) ==
    LET continuous_start == StartContinuousOrdersAfter(s, u) + 1
    IN  continuous_start + Cardinality(PositionedFrom(s, u, continuous_start + 1))

\* _get_next_continuous_position
NextContinuousPosition(s, u) ==
    LET continuous_start == StartContinuousOrdersAfter(s, u) + 1
    IN  continuous_start + Cardinality(PositionedFrom(s, u, continuous_start))

\* review.use_actual_price = True; review.position = position, on the row
\* get_or_create returns
PositionedReview(s, u, p, position) ==
    [ (IF HasReview(s, u, p) THEN Review(s, u, p) ELSE NewReview) EXCEPT
        !.use_actual_price = TRUE,
        !.position = Some(position) ]

\* .update(position=None, use_actual_price=False) on the rows of u in ps
ClearPositions(s, u, ps) ==
    [ s EXCEPT !.reviews[u] =
        [ q \in Products |->
            IF q \in ps
            THEN Some([ Review(s, u, q) EXCEPT !.position = Null,
                                               !.use_actual_price = FALSE ])
            ELSE s.reviews[u][q] ] ]

\* the database after admin_add_product_to_continuous_order(u, p)
AddContinuousRows(s, u, p) ==
    IF IsNull(s.user_level[u]) THEN s
    ELSE [ s EXCEPT !.reviews[u][p] =
             Some(PositionedReview(s, u, p, NextContinuousPosition(s, u))) ]

\* the database after admin_replace_next_order(u, p)
ReplaceNextRows(s, u, p) ==
    IF IsNull(s.user_level[u]) THEN s
    ELSE LET next_position == NextContinuousPosition(s, u)
             evicted == { q \in PositionedFrom(s, u, next_position) \ {p} :
                            Val(Review(s, u, q).position) = next_position }
             s1 == ClearPositions(s, u, evicted)
         IN  [ s1 EXCEPT !.reviews[u][p] =
                 Some(PositionedReview(s1, u, p, next_position)) ]

\* reset_continuous_orders_for_user
ResetContinuousOrdersForUser(s, u) ==
    IF IsNull(s.user_level[u])
    THEN ClearPositions(s, u, { q \in Products :
                                  HasReview(s, u, q) /\ ~IsNull(Review(s, u, q).position) })
    ELSE ClearPositions(s, u,
             PositionedFrom(s, u, StartContinuousOrdersAfter(s, u) + 1))

\* the database after admin_reset_continuous_orders(u)
ResetContinuousRows(s, u) ==
    IF IsNull(s.user_level[u]) THEN s ELSE ResetContinuousOrdersForUser(s, u)

\* the database after admin_remove_product_for_user(u, p)
RemoveRows(s, u, p) == [ s EXCEPT !.reviews[u][p] = Null ]

(***************************************************************************)
(* _get_dashboard_pool, product_dashboard_products                         *)
(***************************************************************************)
Min(a, b) == IF a <= b THEN a ELSE b
Range(f) == { f[k] : k \in DOMAIN f }

\* the balance percentages product_dashboard_products draws agreed_price between
DashboardMinPct == 30
DashboardMaxPct == 70

ActiveProducts == { p \in Products : ProductStatus(p) = "ACTIVE" }

\* the lists .order_by('price') can return for the products of S: the query
\* names no second key, so rows of equal price come in any order
PriceOrders(S) ==
    { sq \in [1 .. Cardinality(S) -> S] :
        \A i, j \in DOMAIN sq :
            i < j => (sq[i] # sq[j] /\ Price(sq[i]) <= Price(sq[j])) }

\* sq[:n]
Take(sq, n) == SubSeq(sq, 1, Min(n, Len(sq)))

\* the values pool_products can take for a user of level lv
PoolProducts(lv) ==
    LET level_set == { p \in ActiveProducts : lv \in ProductLevels(p) }
    IN  UNION { LET level_products == Take(a, MinOrders(lv))
                IN  IF Len(level_products) < MinOrders(lv)
                    THEN { level_products
                             \o Take(b, MinOrders(lv) - Len(level_products)) :
                           b \in PriceOrders(ActiveProducts \ Range(level_products)) }
                    ELSE { level_products }
              : a \in PriceOrders(level_set) }

\* seed = user.id * 100000 + level.id
Seed(u, lv) == u * 100000 + lv

\* random.Random(seed).shuffle(x) puts x[ShuffleIndex(seed, n)[i]] at index i
\* of a list x of n elements (CPython's generator, seeds 100001 and 100002,
\* n <= 3)
ShuffleIndex(seed, n) ==
    CASE n = 3 /\ seed = 100001 -> << 3, 1, 2 >>
      [] n = 3 /\ seed = 100002 -> << 1, 3, 2 >>
      [] OTHER -> [ i \in 1 .. n |-> i ]

Shuffle(x, seed) == [ i \in 1 .. Len(x) |-> x[ShuffleIndex(seed, Len(x))[i]] ]

\* the ACTIVE products whose review of u has position k
PinnedAt(s, u, k) ==
    { p \in ActiveProducts : HasReview(s, u, p) /\ Review(s, u, p).position = Some(k) }

\* the values assigned_by_pos can take: the dict keeps, for each position, the
\* last row of that position in .order_by('position'), which does not order
\* rows of equal position
AssignedByPos(s, u) ==
    LET positions == { Val(Review(s, u, p).position) :
                         p \in { q \in ActiveProducts :
                                   HasReview(s, u, q)
                                   /\ ~IsNull(Review(s, u, q).position) } }
    IN  { f \in [positions -> ActiveProducts] :
            \A k \in positions : f[k] \in PinnedAt(s, u, k) }

\* the slots 1 .. min_orders: the pinned product, else the next pool candidate
RECURSIVE FillSlots(_, _, _, _)
FillSlots(pos, min_orders, abp, cands) ==
    IF pos > min_orders THEN << >>
    ELSE IF pos \in DOMAIN abp
    THEN << abp[pos] >> \o FillSlots(pos + 1, min_orders, abp, cands)
    ELSE IF cands # << >>
    THEN << Head(cands) >> \o FillSlots(pos + 1, min_orders, abp, Tail(cands))
    ELSE FillSlots(pos + 1, min_orders, abp, cands)

\* the pins at the positions ks, by ascending position
RECURSIVE PinsBeyond(_, _)
PinsBeyond(abp, ks) ==
    IF ks = {} THEN << >>
    ELSE LET k == CHOOSE x \in ks : \A y \in ks : x <= y
         IN  << abp[k] >> \o PinsBeyond(abp, ks \ {k})

\* all_products_ordered of _get_dashboard_pool for one value of pool_products
\* and one of assigned_by_pos
AllProductsOrdered(s, u, pool_products, abp) ==
    LET lv == Val(s.user_level[u])
        pool_candidates ==
            Shuffle(SelectSeq(pool_products, LAMBDA p : p \notin Range(abp)),
                    Seed(u, lv))
    IN  FillSlots(1, MinOrders(lv), abp, pool_candidates)
          \o PinsBeyond(abp, { k \in DOMAIN abp : k > MinOrders(lv) })

\* the values all_products_ordered can take
Queues(s, u) ==
    IF IsNull(s.user_level[u]) THEN { << >> }
    ELSE { AllProductsOrdered(s, u, pool_products, abp) :
             pool_products \in PoolProducts(Val(s.user_level[u])),
             abp \in AssignedByPos(s, u) }
\* slot_slice taking the first slot of the queue, completed or not
SlotSlice_FirstSlot(s, u, queue, limit) ==
    IF limit = 1 /\ queue # << >> THEN << Head(queue) >>
    ELSE SelectSeq(queue, LAMBDA p : ~WasPreviouslyCompleted(s, u, p))

\* slot_slice without its None entries, for offset 0: with limit 1 the first
\* slot that is not COMPLETED, with a limit that covers the queue all of them
SlotSlice(s, u, queue, limit) ==
    LET open == SelectSeq(queue, LAMBDA p : ~WasPreviouslyCompleted(s, u, p))
    IN  IF limit = 1 /\ open # << >> THEN << Head(open) >> ELSE open

\* the values max(0.01, round(random.uniform(low, high), 2)) takes at the two
\* ends of the band, and 0.01 for a balance that is not positive
AgreedPrices(b) ==
    IF b > 0
    THEN { Max(1, Quantize(DashboardMinPct * b, 100)),
           Max(1, Quantize(DashboardMaxPct * b, 100)) }
    ELSE { 1 }

\* the row of (u, p) after get_or_create and the agreed_price assignment
ServedReview(s, u, p, price) ==
    LET review == IF HasReview(s, u, p) THEN Review(s, u, p) ELSE NewReview
    IN  IF /\ IsNull(review.agreed_price)
           /\ ~ProductUseActualPrice(p)
           /\ ~review.use_actual_price
        THEN [ review EXCEPT !.agreed_price = Some(price) ]
        ELSE review

\* the database after product_dashboard_products(u) built queue and drew
\* prices[p] for product p
ProductDashboardProductsRows(s, u, queue, limit, prices) ==
    LET slice == Range(SlotSlice(s, u, queue, limit))
    IN  [ s EXCEPT !.reviews[u] =
            [ p \in Products |->
                IF p \in slice THEN Some(ServedReview(s, u, p, prices[p]))
                ELSE s.reviews[u][p] ] ]

(***************************************************************************)
(* Requests served concurrently.  A handler loads its rows into Python     *)
(* objects, computes on them, and writes them back inside                   *)
(* transaction.atomic(); no handler takes a row lock (select_for_update),   *)
(* so another request can commit between the loads and the atomic block.    *)
(***************************************************************************)
\* Positions of a request:
\*   submit   idle -> user (request.user loaded) -> review (existing_review
\*            and the level read) -> done (atomic block committed)
\*   credit   idle -> user (member_account loaded) -> done
\*   approve  idle -> user (transaction and member_account loaded) -> done
\* the database a submit request q computes on: the current rows, with the
\* columns of the user it loaded, the review it read and the level it read
SubmitView(s, q) ==
    [ s EXCEPT !.balance[Participant] = Val(q.user).balance,
               !.balance_frozen[Participant] = Val(q.user).balance_frozen,
               !.balance_frozen_amount[Participant] = Val(q.user).balance_frozen_amount,
               !.reviews[Participant][q.product] = q.row,
               !.commission_rate = Val(q.rates)[1],
               !.frozen_commission_rate = Val(q.rates)[2] ]

\* the database after the atomic block of submit request q committed
SubmitWriteRows(s, q, now) ==
    LET u == Participant
        p == q.product
        view == SubmitView(s, q)
        res == SubmitRows(view, u, p, now)
        computed == Review(res, u, p)
        processes == ShouldProcessCommission(view, u, p)
        saves_user == processes \/ ( /\ SubmitStatus(view, u, p) = "PENDING"
                                     /\ ~view.balance_frozen[u] )
        \* existing_review.save(update_fields=[...]) / objects.create(...)
        stored == IF IsNull(q.row) THEN computed
                  ELSE [ Review(s, u, p) EXCEPT
                           !.status = computed.status,
                           !.commission_earned = computed.commission_earned,
                           !.completed_at = computed.completed_at,
                           !.use_frozen_commission =
                               IF computed.status = "PENDING" THEN TRUE ELSE @ ]
    IN  \* create() of a row that exists (unique_together) and save() of a row
        \* that is gone raise, and the transaction rolls back
        IF IsNull(q.row) = HasReview(s, u, p) THEN s
        ELSE [ res EXCEPT
                 !.reviews[u][p] = Some(stored),
                 !.balance[u] = IF saves_user THEN @ ELSE s.balance[u],
                 !.balance_frozen[u] = IF saves_user THEN @ ELSE s.balance_frozen[u],
                 !.balance_frozen_amount[u] =
                     IF saves_user THEN @ ELSE s.balance_frozen_amount[u],
                 !.commission_rate = s.commission_rate,
                 !.frozen_commission_rate = s.frozen_commission_rate ]

\* what submit request q did: "completed" (commission processed), "pending",
\* "kept" (already COMPLETED) or "error" (rolled back)
SubmitOutcome(s, q) ==
    LET view == SubmitView(s, q)
    IN  IF IsNull(q.row) = HasReview(s, Participant, q.product) THEN "error"
        ELSE IF ShouldProcessCommission(view, Participant, q.product) THEN "completed"
        ELSE IF SubmitStatus(view, Participant, q.product) = "PENDING" THEN "pending"
        ELSE "kept"

\* the database after the atomic block of credit request q (add_balance) committed
CreditWriteRows(s, q) ==
    [ s EXCEPT !.balance[Participant] =
        AddBalanceRows([ s EXCEPT !.balance[Participant] = Val(q.user).balance ],
                       Participant, "CREDIT", q.amount).balance[Participant] ]

\* the database after the atomic block of approve request q committed
ApproveWriteRows(s, q) ==
    LET view == [ s EXCEPT !.balance[Participant] = Val(q.user).balance,
                           !.transactions[q.tx] = q.row ]
        res == ApproveRows(view, Participant, q.tx)
    IN  IF Val(q.row).status = "COMPLETED"
        THEN s
        ELSE [ s EXCEPT !.transactions[q.tx] = res.transactions[q.tx],
                        !.balance[Participant] = res.balance[Participant] ]

(***************************************************************************)
(* reset_user_level_progress, assign_level_to_user, level update           *)
(***************************************************************************)
\* ResetUserLevelProgressImpl without today_completed_reviews.delete()
ResetUserLevelProgressImpl_LevelOnly(s, u, lv, now) ==
    [ s EXCEPT
        !.reviews[u] = [ q \in Products |->
                           IF /\ lv \in ProductLevels(q)
                              /\ HasReview(s, u, q)
                              /\ Review(s, u, q).status = "COMPLETED"
                           THEN Null ELSE s.reviews[u][q] ],
        !.transactions = [ t \in TxIds |->
                           IF ~IsNull(s.transactions[t])
                              /\ Val(s.transactions[t]).status = "COMPLETED"
                           THEN Null ELSE s.transactions[t] ],
        !.completed_products_count[u] = 0 ]
\* a reset that deletes every review of the level's products, whatever its status
ResetUserLevelProgressImpl_AnyStatus(s, u, lv, now) ==
    [ s EXCEPT
        !.reviews[u] = [ q \in Products |->
                           IF \/ lv \in ProductLevels(q)
                              \/ /\ HasReview(s, u, q)
                                 /\ Review(s, u, q).status = "COMPLETED"
                                 /\ ~IsNull(Review(s, u, q).completed_at)
                                 /\ Val(Review(s, u, q).completed_at) >= now
                           THEN Null ELSE s.reviews[u][q] ],
        !.transactions = [ t \in TxIds |->
                           IF ~IsNull(s.transactions[t])
                              /\ Val(s.transactions[t]).status = "COMPLETED"
                           THEN Null ELSE s.transactions[t] ],
        !.completed_products_count[u] = 0 ]

\* reset_user_level_progress_impl(user u, level lv) on day now
ResetUserLevelProgressImpl(s, u, lv, now) ==
    LET level_completed ==
            { q \in Products : /\ lv \in ProductLevels(q)
                               /\ HasReview(s, u, q)
                               /\ Review(s, u, q).status = "COMPLETED" }
        today_completed ==
            { q \in Products : /\ HasReview(s, u, q)
                               /\ Review(s, u, q).status = "COMPLETED"
                               /\ ~IsNull(Review(s, u, q).completed_at)
                               /\ Val(Review(s, u, q).completed_at) >= now }
    IN  [ s EXCEPT
            !.reviews[u] = [ q \in Products |->
                               IF q \in level_completed \cup today_completed
                               THEN Null ELSE s.reviews[u][q] ],
            !.transactions = [ t \in TxIds |->
                               IF ~IsNull(s.transactions[t])
                                  /\ Val(s.transactions[t]).status = "COMPLETED"
                               THEN Null ELSE s.transactions[t] ],
            !.completed_products_count[u] = 0 ]

\* the database after assign_level_to_user(u, level), level nullable
AssignLevelRows(s, u, level, now) ==
    LET s1 == [ s EXCEPT !.user_level[u] = level ]
        s2 == ResetContinuousOrdersForUser(s1, u)
    IN  IF IsNull(level) THEN s2
        ELSE ResetUserLevelProgressImpl(s2, u, Val(level), now)

\* product_dashboard: todays_commission, the Sum of commission_earned over the
\* user's COMPLETED reviews with completed_at >= today_start
RECURSIVE SumCommission(_, _, _)
SumCommission(s, u, ps) ==
    IF ps = {} THEN 0
    ELSE LET q == CHOOSE x \in ps : TRUE
         IN  Review(s, u, q).commission_earned + SumCommission(s, u, ps \ {q})

TodaysCommission(s, u, now) ==
    SumCommission(s, u,
        { q \in Products : /\ HasReview(s, u, q)
                           /\ Review(s, u, q).status = "COMPLETED"
                           /\ ~IsNull(Review(s, u, q).completed_at)
                           /\ Val(Review(s, u, q).completed_at) >= now })

\* the database after LevelDetailView.update sets start_continuous_orders_after
\* (an IntegerField, nullable, with no lower limit)
UpdateThresholdRows(s, lv, value) ==
    [ s EXCEPT !.start_continuous_orders_after[lv] = value ]

\* the database after LevelDetailView.update sets commission_rate
UpdateRateRows(s, lv, rate) == [ s EXCEPT !.commission_rate[lv] = rate ]


(***************************************************************************)
(* The state machine                                                       *)
(***************************************************************************)
\* products a request names, positions a pin request names
RequestProducts == {1, 2}
PinPositions == {1}

\* the handler call recorded in last
Call(op, product, arg) == [ op |-> op, product |-> product, arg |-> arg ]

\* History of the sequence "a submission leaves T PENDING and freezes the
\* participant; the next call credits the balance (operator credit or approved
\* deposit) so that it covers T's price; the next call submits T again".
NoTopUp == [ stage |-> "none", product |-> 0, price |-> 0 ]
TopUpNext(tr, s, r, call) ==
    LET u == Participant
    IN  IF /\ call.op = "SubmitTask"
           /\ ~s.balance_frozen[u] /\ r.balance_frozen[u]
           /\ HasReview(r, u, call.product)
           /\ Review(r, u, call.product).status = "PENDING"
        THEN [ stage |-> "frozen", product |-> call.product,
               price |-> SubmitPrice(s, u, call.product) ]
        ELSE IF /\ tr.stage = "frozen"
                /\ \/ call.op = "AddBalance" /\ call.arg[1] = "CREDIT"
                   \/ call.op = "ApproveTransaction" /\ r.balance[u] > s.balance[u]
                /\ r.balance[u] >= tr.price
        THEN [ tr EXCEPT !.stage = "credited" ]
        ELSE IF /\ tr.stage = "credited"
                /\ call.op = "SubmitTask"
                /\ call.product = tr.product
                /\ SubmitPrice(s, u, call.product) = tr.price
        THEN [ tr EXCEPT !.stage = "resubmitted" ]
        ELSE NoTopUp

\* the calls that change a pin, the catalog's positions, the participant's
\* tier or delete assignments
OverrideOps == { "InsertForUser", "InsertGlobal", "AddContinuousOrder",
                 "ReplaceNextOrder", "ResetContinuousOrders",
                 "RemoveProductForUser", "AssignTier", "ResetTierProgress" }

\* served.queue is all_products_ordered of the last dashboard call, and
\* served.earlier that of the dashboard call before it; both are forgotten
\* when a call of OverrideOps runs
NoneServed == [ queue |-> Null, earlier |-> Null ]
ServedNext(sv, call) ==
    IF call.op = "GetNextTasks"
    THEN [ queue |-> Some(call.arg[2]), earlier |-> sv.queue ]
    ELSE IF call.op \in OverrideOps THEN NoneServed
    ELSE sv

\* the first non-null agreed_price of each row of the participant, forgotten
\* when the row is deleted
AgreedFirstNext(af, r) ==
    [ p \in Products |->
        IF ~HasReview(r, Participant, p) THEN Null
        ELSE IF IsNull(af[p]) THEN Review(r, Participant, p).agreed_price
        ELSE af[p] ]

\* a request that has not started, and no request started
IdleRequest == [ kind |-> "none", pc |-> "idle", product |-> 0, tx |-> 0,
                 amount |-> 0, user |-> Null, row |-> Null, rates |-> Null,
                 outcome |-> "none", credited |-> 0 ]
NoRace == [ req |-> [ k \in {1, 2} |-> IdleRequest ], base |-> Null ]

\* the tables hold r
Store(r) ==
    /\ balance' = r.balance
    /\ balance_frozen' = r.balance_frozen
    /\ balance_frozen_amount' = r.balance_frozen_amount
    /\ completed_products_count' = r.completed_products_count
    /\ user_level' = r.user_level
    /\ is_training_account' = r.is_training_account
    /\ original_account' = r.original_account
    /\ reviews' = r.reviews
    /\ product_position' = r.product_position
    /\ commission_rate' = r.commission_rate
    /\ frozen_commission_rate' = r.frozen_commission_rate
    /\ start_continuous_orders_after' = r.start_continuous_orders_after
    /\ transactions' = r.transactions

\* the handler has run: the tables hold r, pre holds what they held before
Commit(r, call) ==
    /\ Store(r)
    /\ pre' = Rows
    /\ last' = call
    /\ topup' = TopUpNext(topup, Rows, r, call)
    /\ served' = ServedNext(served, call)
    /\ agreed_first' = AgreedFirstNext(agreed_first, r)
    /\ ops' = ops - 1
    /\ UNCHANGED << today, race >>

\* the tables of a deployment with its accounts, catalog and tiers set up and
\* no task served yet; positions is the products.position column
InitTables(positions, level) ==
    /\ balance \in [Users -> StartBalances]
    /\ balance[OriginAccount] = 5000
    /\ balance_frozen = [u \in Users |-> FALSE]
    /\ balance_frozen_amount = [u \in Users |-> Null]
    /\ completed_products_count = [u \in Users |-> 0]
    /\ user_level = [u \in Users |-> IF u = Participant THEN Some(level) ELSE Null]
    /\ is_training_account \in
           { [u \in Users |-> u = Participant /\ b] : b \in BOOLEAN }
    /\ original_account =
           [u \in Users |-> IF is_training_account[u] THEN Some(OriginAccount) ELSE Null]
    /\ reviews = [u \in Users |-> [p \in Products |-> Null]]
    /\ product_position = positions
    /\ commission_rate = [lv \in Levels |-> 10]
    /\ frozen_commission_rate = [lv \in Levels |-> IF lv = 1 THEN Null ELSE Some(20)]
    /\ start_continuous_orders_after = [lv \in Levels |-> IF lv = 1 THEN Null ELSE Some(1)]
    /\ transactions = [t \in TxIds |-> Null]
    /\ today = 0
    /\ last = Call("init", 0, << >>)
    /\ pre = Rows
    /\ topup = NoTopUp
    /\ served = NoneServed
    /\ agreed_first = [p \in Products |-> Null]
    /\ race = NoRace

\* products.position defaults to 0
Init ==
    /\ InitTables([p \in Products |-> 0], 1)
    /\ ops = MaxOps

\* POST submit_product_review by the participant
SubmitTask ==
    /\ ops > 0
    /\ \E p \in RequestProducts \cup {3} :
          Commit(SubmitRows(Rows, Participant, p, today), Call("SubmitTask", p, << >>))

\* POST add_balance by an operator
AddBalance ==
    /\ ops > 0
    /\ \E kind \in {"CREDIT", "DEBIT"}, amount \in Amounts :
          Commit(AddBalanceRows(Rows, Participant, kind, amount),
                 Call("AddBalance", 0, << kind, amount >>))

\* POST my_deposit by the participant
Deposit ==
    /\ ops > 0
    /\ \E t \in TxIds, amount \in Amounts :
          /\ IsNull(transactions[t])
          /\ Commit(CreateTransactionRows(Rows, t, "DEPOSIT", amount),
                    Call("Deposit", 0, << t, amount >>))

\* POST withdraw_amount by the participant
Withdraw ==
    /\ ops > 0
    /\ \E t \in TxIds, amount \in Amounts :
          /\ IsNull(transactions[t])
          /\ WithdrawValid(Rows, Participant, amount)
          /\ Commit(CreateTransactionRows(Rows, t, "WITHDRAWAL", amount),
                    Call("Withdraw", 0, << t, amount >>))

\* POST approve_transaction by an operator
ApproveTransaction ==
    /\ ops > 0
    /\ \E t \in TxIds :
          /\ ~IsNull(transactions[t])
          /\ Commit(ApproveRows(Rows, Participant, t), Call("ApproveTransaction", 0, << t >>))

\* POST reject_transaction by an operator
RejectTransaction ==
    /\ ops > 0
    /\ \E t \in TxIds :
          /\ ~IsNull(transactions[t])
          /\ Commit(RejectRows(Rows, Participant, t), Call("RejectTransaction", 0, << t >>))

\* POST insert_product_at_position with user_id
InsertForUser ==
    /\ ops > 0
    /\ \E p \in RequestProducts, position \in PinPositions :
          Commit(InsertForUserRows(Rows, Participant, p, position),
                 Call("InsertForUser", p, << position >>))

\* POST admin_add_product_to_continuous_order
AddContinuousOrder ==
    /\ ops > 0
    /\ \E p \in RequestProducts :
          Commit(AddContinuousRows(Rows, Participant, p), Call("AddContinuousOrder", p, << >>))

\* POST admin_replace_next_order
ReplaceNextOrder ==
    /\ ops > 0
    /\ \E p \in RequestProducts :
          Commit(ReplaceNextRows(Rows, Participant, p), Call("ReplaceNextOrder", p, << >>))

\* POST admin_reset_continuous_orders
ResetContinuousOrders ==
    /\ ops > 0
    /\ Commit(ResetContinuousRows(Rows, Participant), Call("ResetContinuousOrders", 0, << >>))

\* POST admin_remove_product_for_user
RemoveProductForUser ==
    /\ ops > 0
    /\ \E p \in RequestProducts :
          Commit(RemoveRows(Rows, Participant, p), Call("RemoveProductForUser", p, << >>))

\* POST reset_user_level_progress
ResetTierProgress ==
    /\ ops > 0
    /\ \E lv \in Levels :
          Commit(ResetUserLevelProgressImpl(Rows, Participant, lv, today),
                 Call("ResetTierProgress", 0, << lv >>))

\* POST assign_level_to_user
AssignTier ==
    /\ ops > 0
    /\ \E level \in {Null} \cup {Some(lv) : lv \in Levels} :
          Commit(AssignLevelRows(Rows, Participant, level, today),
                 Call("AssignTier", 0, level))

\* PATCH LevelDetailView: commission_rate
UpdateRate ==
    /\ ops > 0
    /\ \E rate \in Rates :
          Commit(UpdateRateRows(Rows, 1, rate), Call("UpdateRate", 0, << rate >>))

\* midnight passes
Tick ==
    /\ today < MaxDay
    /\ today' = today + 1
    /\ pre' = Rows
    /\ last' = Call("Tick", 0, << >>)
    /\ UNCHANGED << balance, balance_frozen, balance_frozen_amount,
                    completed_products_count, user_level, is_training_account,
                    original_account, reviews, product_position, commission_rate,
                    frozen_commission_rate, start_continuous_orders_after,
                    transactions, ops, topup, served, agreed_first, race >>

Next ==
    \/ SubmitTask
    \/ AddBalance
    \/ Deposit
    \/ Withdraw
    \/ ApproveTransaction
    \/ RejectTransaction
    \/ InsertForUser
    \/ AddContinuousOrder
    \/ ReplaceNextOrder
    \/ ResetContinuousOrders
    \/ RemoveProductForUser
    \/ ResetTierProgress
    \/ AssignTier
    \/ UpdateRate
    \/ Tick

Spec == Init /\ [][Next]_vars

(***************************************************************************)
(* The catalog alone: repositioning from any catalog whose positive        *)
(* positions are pairwise distinct                                         *)
(***************************************************************************)
DistinctPositions(pos) ==
    \A q, r \in Products :
        (q # r /\ pos[q] > 0 /\ pos[r] > 0) => pos[q] # pos[r]

CatalogInit ==
    /\ \E positions \in [Products -> 0 .. MaxPosition] :
          /\ DistinctPositions(positions)
          /\ InitTables(positions, 1)
    /\ balance[Participant] = 5000
    /\ ~is_training_account[Participant]
    /\ ops = MaxCatalogOps

\* POST insert_product_at_position without user_id
InsertGlobal ==
    /\ ops > 0
    /\ \E p \in Products, position \in 0 .. MaxPosition :
          Commit(InsertGlobalRows(Rows, p, position),
                 Call("InsertGlobal", p, << position >>))

CatalogNext == InsertGlobal

SpecCatalog == CatalogInit /\ [][CatalogNext]_vars

(***************************************************************************)
(* The dashboard with submissions, credits and pins                        *)
(***************************************************************************)
\* limit query parameter of product_dashboard_products
Limits == { 1, 50 }

\* GET product_dashboard_products by the participant
GetNextTasks ==
    /\ ops > 0
    /\ \E limit \in Limits, queue \in Queues(Rows, Participant) :
       \E prices \in [Range(SlotSlice(Rows, Participant, queue, limit))
                        -> AgreedPrices(balance[Participant])] :
          Commit(ProductDashboardProductsRows(Rows, Participant, queue, limit, prices),
                 Call("GetNextTasks", 0,
                      << limit, queue, SlotSlice(Rows, Participant, queue, limit) >>))

ServeInit ==
    /\ \E level \in Levels : InitTables([p \in Products |-> 0], level)
    /\ balance[Participant] = 10000
    /\ ~is_training_account[Participant]
    /\ ops = MaxServeOps

ServeNext ==
    \/ GetNextTasks
    \/ SubmitTask
    \/ AddBalance
    \/ InsertForUser
    \/ AddContinuousOrder
    \/ ReplaceNextOrder
    \/ ResetContinuousOrders

SpecServe == ServeInit /\ [][ServeNext]_vars

(***************************************************************************)
(* Two concurrent requests for the participant                             *)
(***************************************************************************)
Requests == { 1, 2 }

\* the users columns a handler loads
UserRow(s, u) == [ balance |-> s.balance[u],
                   balance_frozen |-> s.balance_frozen[u],
                   balance_frozen_amount |-> s.balance_frozen_amount[u] ]

\* the participant's balance, count and COMPLETED assignments when the first
\* of the requests starts
RaceBase(s) ==
    [ balance |-> s.balance[Participant],
      count |-> s.completed_products_count[Participant],
      completed |-> { p \in Products : WasPreviouslyCompleted(s, Participant, p) } ]

\* a step of a request: the tables hold r and request k is now q
RaceStep(r, k, q, op) ==
    /\ Store(r)
    /\ race' = [ race EXCEPT !.req[k] = q,
                             !.base = IF IsNull(@) THEN Some(RaceBase(Rows)) ELSE @ ]
    /\ pre' = Rows
    /\ last' = Call(op, q.product, << k >>)
    /\ agreed_first' = AgreedFirstNext(agreed_first, r)
    /\ UNCHANGED << today, ops, topup, served >>

\* submit_product_review: authentication loads request.user, the serializer
\* accepts the request
SubmitLoadUser ==
    \E k \in Requests, p \in RequestProducts :
        /\ race.req[k].pc = "idle"
        /\ SubmitValid(Rows, Participant, p)
        /\ RaceStep(Rows, k,
                    [ IdleRequest EXCEPT !.kind = "submit", !.pc = "user",
                                         !.product = p,
                                         !.user = Some(UserRow(Rows, Participant)) ],
                    "SubmitLoadUser")

\* submit_product_review: existing_review and user.level are read
SubmitReadReview ==
    \E k \in Requests :
        /\ race.req[k].kind = "submit" /\ race.req[k].pc = "user"
        /\ RaceStep(Rows, k,
                    [ race.req[k] EXCEPT
                        !.pc = "review",
                        !.row = reviews[Participant][race.req[k].product],
                        !.rates = Some(<< commission_rate, frozen_commission_rate >>) ],
                    "SubmitReadReview")

\* submit_product_review: the atomic block runs and commits
SubmitWrite ==
    \E k \in Requests :
        LET q == race.req[k]
        IN  /\ q.kind = "submit" /\ q.pc = "review"
            /\ LET r == SubmitWriteRows(Rows, q, today)
                   outcome == SubmitOutcome(Rows, q)
               IN  RaceStep(r, k,
                            [ q EXCEPT
                                !.pc = "done",
                                !.outcome = outcome,
                                !.credited =
                                    IF outcome = "completed"
                                    THEN Review(r, Participant, q.product).commission_earned
                                    ELSE 0 ],
                            "SubmitWrite")

\* add_balance: the serializer loads member_account
CreditLoad ==
    \E k \in Requests, amount \in Amounts :
        /\ race.req[k].pc = "idle"
        /\ RaceStep(Rows, k,
                    [ IdleRequest EXCEPT !.kind = "credit", !.pc = "user",
                                         !.amount = amount,
                                         !.user = Some(UserRow(Rows, Participant)) ],
                    "CreditLoad")

\* add_balance: the atomic block runs and commits
CreditWrite ==
    \E k \in Requests :
        LET q == race.req[k]
        IN  /\ q.kind = "credit" /\ q.pc = "user"
            /\ RaceStep(CreditWriteRows(Rows, q), k,
                        [ q EXCEPT !.pc = "done", !.outcome = "credited",
                                   !.credited = q.amount ],
                        "CreditWrite")

\* approve_transaction: the transaction and its member_account are loaded
ApproveLoad ==
    \E k \in Requests, t \in TxIds :
        /\ race.req[k].pc = "idle"
        /\ ~IsNull(transactions[t])
        /\ RaceStep(Rows, k,
                    [ IdleRequest EXCEPT !.kind = "approve", !.pc = "user",
                                         !.tx = t,
                                         !.row = transactions[t],
                                         !.amount = Val(transactions[t]).amount,
                                         !.user = Some(UserRow(Rows, Participant)) ],
                    "ApproveLoad")

\* approve_transaction: the atomic block runs and commits
ApproveWrite ==
    \E k \in Requests :
        LET q == race.req[k]
            credits == Val(q.row).status # "COMPLETED" /\ Val(q.row).type = "DEPOSIT"
        IN  /\ q.kind = "approve" /\ q.pc = "user"
            /\ RaceStep(ApproveWriteRows(Rows, q), k,
                        [ q EXCEPT !.pc = "done",
                                   !.outcome = IF credits THEN "credited" ELSE "kept",
                                   !.credited = IF credits THEN q.amount ELSE 0 ],
                        "ApproveWrite")

\* the participant has seen the dashboard or asked for a deposit (at most
\* MaxRaceOps such calls), and two requests run
RaceInit ==
    /\ InitTables([p \in Products |-> 0], 1)
    /\ balance[Participant] = 10000
    /\ ~is_training_account[Participant]
    /\ ops = MaxRaceOps

RaceNext ==
    \/ GetNextTasks
    \/ Deposit
    \/ SubmitLoadUser
    \/ SubmitReadReview
    \/ SubmitWrite
    \/ CreditLoad
    \/ CreditWrite
    \/ ApproveLoad
    \/ ApproveWrite

SpecRace == RaceInit /\ [][RaceNext]_vars

(***************************************************************************)
(* Requests as they arrive: valid and invalid inputs                       *)
(***************************************************************************)
MaxRequestOps == 2

\* POST insert_product_at_position with any body, by any operator
InsertAtPosition ==
    /\ ops > 0
    /\ \E operator \in Operators, product_id \in ProductIds,
          raw \in PositionInputs, user_id \in UserIds :
          Commit(InsertProductAtPosition(Rows, operator, product_id, raw, user_id),
                 Call("InsertAtPosition", product_id, << operator, raw, user_id >>))

\* POST submit_product_review with any product_id
SubmitAnyTask ==
    /\ ops > 0
    /\ \E p \in ProductIds \cup { 3 } :
          Commit(SubmitRows(Rows, Participant, p, today), Call("SubmitTask", p, << >>))

RequestInit ==
    /\ InitTables([p \in Products |-> 0], 1)
    /\ balance[Participant] = 10000
    /\ ~is_training_account[Participant]
    /\ ops = MaxRequestOps

RequestNext == InsertAtPosition \/ SubmitAnyTask \/ AssignTier

SpecRequests == RequestInit /\ [][RequestNext]_vars

(***************************************************************************)
(* Pins, continuous orders and the level's threshold                       *)
(***************************************************************************)
MaxPinOps == 4

\* templates an operator pins, positions of a pin with insert_product_at_position,
\* and values an operator gives start_continuous_orders_after
PinProducts == { 1, 2, 4 }
InsertPositions == { 1, 2, 3 }
Thresholds == { Null, Some(0 - 1), Some(1) }

\* POST insert_product_at_position with user_id, at any of InsertPositions
PinInsert ==
    /\ ops > 0
    /\ \E p \in PinProducts, position \in InsertPositions :
          Commit(InsertForUserRows(Rows, Participant, p, position),
                 Call("InsertForUser", p, << position >>))

\* POST admin_add_product_to_continuous_order
PinAdd ==
    /\ ops > 0
    /\ \E p \in PinProducts :
          Commit(AddContinuousRows(Rows, Participant, p), Call("AddContinuousOrder", p, << >>))

\* POST admin_replace_next_order
PinReplace ==
    /\ ops > 0
    /\ \E p \in PinProducts :
          Commit(ReplaceNextRows(Rows, Participant, p), Call("ReplaceNextOrder", p, << >>))

\* PATCH LevelDetailView: start_continuous_orders_after of the participant's level
UpdateThreshold ==
    /\ ops > 0
    /\ ~IsNull(user_level[Participant])
    /\ \E value \in Thresholds :
          Commit(UpdateThresholdRows(Rows, Val(user_level[Participant]), value),
                 Call("UpdateThreshold", 0, value))

PinInit ==
    /\ InitTables([p \in Products |-> 0], 1)
    /\ balance[Participant] = 10000
    /\ ~is_training_account[Participant]
    /\ ops = MaxPinOps

PinNext ==
    \/ PinInsert
    \/ PinAdd
    \/ PinReplace
    \/ ResetContinuousOrders
    \/ UpdateThreshold
    \/ SubmitTask
    \/ AssignTier

SpecPins == PinInit /\ [][PinNext]_vars

(***************************************************************************)
(* Properties                                                              *)
(***************************************************************************)
\* the last call was a submission the serializer accepted
Submitted == last.op = "SubmitTask" /\ SubmitValid(pre, Participant, last.product)

\* the last call was an accepted submission of an assignment that was COMPLETED
Resubmitted == Submitted /\ WasPreviouslyCompleted(pre, Participant, last.product)

\* the last call was an accepted submission that took its assignment from
\* absent or PENDING to COMPLETED
CompletedNow ==
    /\ Submitted
    /\ ~WasPreviouslyCompleted(pre, Participant, last.product)
    /\ HasReview(Rows, Participant, last.product)
    /\ Review(Rows, Participant, last.product).status = "COMPLETED"

\* C1: a submission of an assignment that is already COMPLETED leaves its
\* commission_earned as it was, whatever the balance and the tier's rate are.
C1_CommissionEarnedKept ==
    Resubmitted =>
        /\ HasReview(Rows, Participant, last.product)
        /\ Review(Rows, Participant, last.product).commission_earned
             = Review(pre, Participant, last.product).commission_earned

\* C2: a submission of an assignment that is already COMPLETED leaves the
\* participant's balance, the origin account's balance and completed_count
\* as they were.
C2_ResubmitCreditsNothing ==
    Resubmitted =>
        /\ balance[Participant] = pre.balance[Participant]
        /\ balance[OriginAccount] = pre.balance[OriginAccount]
        /\ completed_products_count[Participant]
             = pre.completed_products_count[Participant]

\* C3: a COMPLETED assignment stays COMPLETED across submissions and balance
\* changes (operator credit / debit, deposit and withdrawal requests, their
\* approval and rejection).
C3_CompletedIsTerminal ==
    \A p \in Products :
        ( /\ last.op \in { "SubmitTask", "AddBalance", "Deposit", "Withdraw",
                           "ApproveTransaction", "RejectTransaction" }
          /\ WasPreviouslyCompleted(pre, Participant, p) )
        => WasPreviouslyCompleted(Rows, Participant, p)

\* the case of C4: a participant who is not frozen submits a task that is not
\* COMPLETED and whose effective price exceeds the live balance
FreezeCase ==
    /\ Submitted
    /\ ~pre.balance_frozen[Participant]
    /\ ~WasPreviouslyCompleted(pre, Participant, last.product)
    /\ SubmitPrice(pre, Participant, last.product) > pre.balance[Participant]

C5_UnfreezeAfterTopUp ==
    topup.stage = "resubmitted" =>
        /\ HasReview(Rows, Participant, topup.product)
        /\ Review(Rows, Participant, topup.product).status = "COMPLETED"
        /\ ~balance_frozen[Participant]
        /\ IsNull(balance_frozen_amount[Participant])

\* C6: for every user, balance_frozen_amount is non-null iff balance_frozen.
C6_FrozenAmountIffFrozen ==
    \A u \in Users : balance_frozen[u] <=> ~IsNull(balance_frozen_amount[u])

\* a frozen participant, and a later completion that unfroze it
C6_Witness ==
    /\ CompletedNow
    /\ pre.balance_frozen[Participant]
    /\ ~IsNull(pre.balance_frozen_amount[Participant])
    /\ ~balance_frozen[Participant]
    /\ IsNull(balance_frozen_amount[Participant])

\* C7: when a training participant with an origin account completes a task
\* with commission c, the origin account gains 30% of c and the participant
\* gains c, frozen or not; a submission that completes nothing leaves the
\* origin account's balance as it was.
C7_TrainingSplit ==
    ( /\ Submitted
      /\ pre.is_training_account[Participant]
      /\ ~IsNull(pre.original_account[Participant]) )
    => IF CompletedNow
       THEN LET c == Review(Rows, Participant, last.product).commission_earned
            IN  /\ 100 * (balance[OriginAccount] - pre.balance[OriginAccount])
                     = OriginBonusPercent * c
                /\ balance[Participant] - pre.balance[Participant] = c
       ELSE balance[OriginAccount] = pre.balance[OriginAccount]

\* the case of C8: a reposition of a template from a >= 1 to b >= 1, a # b
MoveCase ==
    /\ last.op = "InsertGlobal"
    /\ pre.product_position[last.product] >= 1
    /\ last.arg[1] >= 1
    /\ last.arg[1] # pre.product_position[last.product]

\* C8: the template is at b; the other templates with b <= pos < a (moving
\* earlier) moved up by one, those with a < pos <= b (moving later) moved down
\* by one, every other template kept its position; no two other templates
\* were swapped, and two that were apart stay apart (unless one of them
\* shared position a with the moved template).
C8_RepositionArithmetic ==
    MoveCase =>
        LET a == pre.product_position[last.product]
            b == last.arg[1]
            old == pre.product_position
            others == Products \ {last.product}
        IN  /\ product_position[last.product] = b
            /\ \A q \in others :
                  product_position[q] =
                      IF b < a /\ b <= old[q] /\ old[q] < a THEN old[q] + 1
                      ELSE IF a < b /\ a < old[q] /\ old[q] <= b THEN old[q] - 1
                      ELSE old[q]
            /\ \A q, r \in others :
                  old[q] < old[r] =>
                      /\ product_position[q] <= product_position[r]
                      /\ (old[q] # a /\ old[r] # a)
                            => product_position[q] < product_position[r]

\* 5 to 2 turns {2,3,4} into {3,4,5}
C8_Witness ==
    /\ MoveCase
    /\ pre.product_position = [p \in Products |-> p + 1]
    /\ last.product = 4 /\ last.arg[1] = 2
    /\ product_position = [p \in Products |-> IF p = 4 THEN 2 ELSE p + 2]

\* C9: no two templates have the same positive position.
C9_PositionsDistinct == DistinctPositions(product_position)

\* C10: after AdminResetTierProgress the participant's completed_count is 0,
\* no assignment of the participant is COMPLETED with completed_at today, and
\* today's commission total is 0.
C10_ResetClearsToday ==
    last.op = "ResetTierProgress" =>
        /\ completed_products_count[Participant] = 0
        /\ \A p \in Products :
              ~( /\ HasReview(Rows, Participant, p)
                 /\ Review(Rows, Participant, p).status = "COMPLETED"
                 /\ ~IsNull(Review(Rows, Participant, p).completed_at)
                 /\ Val(Review(Rows, Participant, p).completed_at) >= today )
        /\ TodaysCommission(Rows, Participant, today) = 0

\* a reset of one tier after a template of another tier was completed today
C10_Witness ==
    /\ last.op = "ResetTierProgress"
    /\ pre.completed_products_count[Participant] > 0
    /\ \E p \in Products :
          /\ last.arg[1] \notin ProductLevels(p)
          /\ WasPreviouslyCompleted(pre, Participant, p)
          /\ Review(pre, Participant, p).completed_at = Some(today)
          /\ Review(pre, Participant, p).commission_earned > 0

Generated(p) ==
    /\ last.op = "GetNextTasks"
    /\ HasReview(Rows, Participant, p)
    /\ ~IsNull(Review(Rows, Participant, p).agreed_price)
    /\ ( ~HasReview(pre, Participant, p)
         \/ IsNull(Review(pre, Participant, p).agreed_price) )

\* v is within the band of level lv for balance b, or is the floor 0.01
InBand(v, b, lv) ==
    IF b <= 0 THEN v = 1
    ELSE /\ v >= 1
         /\ PriceMinPercent(lv) * b <= 100 * v
         /\ 100 * v <= Max(PriceMaxPercent(lv) * b, 100)

\* C12: every agreed_price a dashboard call generates lies between
\* price_min_percent% and price_max_percent% (of the participant's tier) of the
\* participant's balance at that call, with a floor of 0.01.
C12_BandInvariant ==
    \A p \in Products :
        Generated(p) =>
            InBand(Val(Review(Rows, Participant, p).agreed_price),
                   pre.balance[Participant], Val(pre.user_level[Participant]))

\* C13: as long as the participant's assignment of a product exists, its
\* agreed_price, when set, is the value it was first set to.
C13_AgreedPriceStable ==
    \A p \in Products :
        ( /\ HasReview(Rows, Participant, p)
          /\ ~IsNull(Review(Rows, Participant, p).agreed_price)
          /\ ~IsNull(agreed_first[p]) )
        => Review(Rows, Participant, p).agreed_price = agreed_first[p]

\* C14: a dashboard call that follows an earlier dashboard call, with only
\* submissions, assignment creation and balance changes between them (no pin,
\* no reposition, no tier change, no deletion), builds the same queue: the
\* same product in every slot.
C14_QueueDeterministic ==
    ( last.op = "GetNextTasks" /\ ~IsNull(served.earlier) )
        => served.queue = served.earlier

\* both requests have committed
AllDone == \A k \in Requests : race.req[k].pc = "done"

\* the case of C15: both requests submitted the same task, which was not
\* COMPLETED when the first of them started, and each found the balance it
\* compared sufficient
SameTaskRace ==
    /\ AllDone
    /\ \A k \in Requests : race.req[k].kind = "submit" /\ race.req[k].outcome # "pending"
    /\ race.req[1].product = race.req[2].product
    /\ race.req[1].product \notin Val(race.base).completed

\* C15: in that case completed_count grew by at most 1 and the balance by at
\* most the task's commission.
C15_SubmissionsSerialized ==
    SameTaskRace =>
        /\ completed_products_count[Participant] <= Val(race.base).count + 1
        /\ balance[Participant]
             <= Val(race.base).balance
                  + Review(Rows, Participant, race.req[1].product).commission_earned

\* the case of C16: a submission that completed a task, and with it another
\* submission that completed a different task, an operator credit or the
\* approval of a deposit
CreditRace ==
    /\ AllDone
    /\ \E k, j \in Requests :
          /\ k # j
          /\ race.req[k].kind = "submit" /\ race.req[k].outcome = "completed"
          /\ \/ /\ race.req[j].kind = "submit"
                /\ race.req[j].outcome = "completed"
                /\ race.req[j].product # race.req[k].product
             \/ race.req[j].kind = "credit"
             \/ race.req[j].kind = "approve" /\ race.req[j].outcome = "credited"

\* C16: in that case the balance is the initial balance plus every commission
\* and amount credited, and completed_count the initial count plus the
\* number of completions.
C16_NoLostUpdate ==
    CreditRace =>
        /\ balance[Participant]
             = Val(race.base).balance + race.req[1].credited + race.req[2].credited
        /\ completed_products_count[Participant]
             = Val(race.base).count
                 + Cardinality({ k \in Requests : race.req[k].outcome = "completed" })

\* the call was an explicit reset of the participant's progress
ExplicitReset ==
    \/ last.op = "ResetTierProgress"
    \/ last.op = "AssignTier" /\ ~IsNull(last.arg)

\* C17: completed_products_count never decreases except by an explicit reset:
\* after every submission, pin or re-pin, continuous-order add, replace or
\* reset, removal, balance adjustment, transaction request, approval or
\* rejection and rate change the count is at least what it was before the
\* call; reset_user_level_progress and assign_level_to_user with a level set
\* it to 0
C17_CountMonotone ==
    /\ ExplicitReset => completed_products_count[Participant] = 0
    /\ ~ExplicitReset =>
           \A u \in Users :
               completed_products_count[u] >= pre.completed_products_count[u]

\* a completed task was pinned again and re-opened, and the count of 1 stayed
C17_Witness ==
    /\ last.op = "InsertForUser"
    /\ HasReview(pre, Participant, last.product)
    /\ Review(pre, Participant, last.product).status = "COMPLETED"
    /\ Review(Rows, Participant, last.product).status = "PENDING"
    /\ pre.completed_products_count[Participant] = 1
    /\ completed_products_count[Participant] = 1

\* the request is one that insert_product_at_position is to refuse: unknown
\* template, position missing, negative or not an integer, unknown
\* participant, or an operator who is neither admin nor the participant's
\* creator
RefusedInsert ==
    /\ last.op = "InsertAtPosition"
    /\ LET operator == last.arg[1]
           raw == last.arg[2]
           user_id == last.arg[3]
       IN  \/ last.product \notin Products
           \/ raw.json \in { "absent", "text" }
           \/ raw.tenths < 0
           \/ raw.tenths % 10 # 0
           \/ ~IsNull(user_id) /\ Val(user_id) # Participant
           \/ ~IsNull(user_id) /\ operator = "other"

\* the request is one that submit_product_review is to refuse: unknown or
\* non-ACTIVE template, or a participant without a level
RefusedSubmit ==
    /\ last.op = "SubmitTask"
    /\ \/ last.product \notin Products
       \/ ProductStatus(last.product) # "ACTIVE"
       \/ IsNull(pre.user_level[Participant])

\* C18: rejected requests mutate nothing: insert_product_at_position with a
\* missing, negative or non-integer position, an unknown template, an unknown
\* participant or a foreign operator answers with an error status, and it
\* and submit_product_review with an unknown or non-ACTIVE template or a
\* participant without a level leave every table as it was
C18_RejectedMutatesNothing ==
    /\ RefusedInsert =>
           /\ InsertStatus(last.arg[1], last.product, last.arg[2], last.arg[3]) # 200
           /\ Rows = pre
    /\ RefusedSubmit => Rows = pre

\* the balance a submission compares with the price: the frozen snapshot when
\* the assignment is marked for the frozen rate and the participant is frozen
\* with a snapshot, the live balance otherwise
ComparisonBalance(s, u, p) ==
    IF /\ HasReview(s, u, p)
       /\ Review(s, u, p).use_frozen_commission
       /\ s.balance_frozen[u]
       /\ ~IsNull(s.balance_frozen_amount[u])
    THEN Val(s.balance_frozen_amount[u])
    ELSE s.balance[u]

\* the effective price: the template's price when the assignment or the
\* template forces it, else the cached agreed price, else the template's price
EffectivePrice(s, u, p) ==
    IF HasReview(s, u, p) /\ Review(s, u, p).use_actual_price THEN Price(p)
    ELSE IF ProductUseActualPrice(p) THEN Price(p)
    ELSE IF HasReview(s, u, p) /\ ~IsNull(Review(s, u, p).agreed_price)
         THEN Val(Review(s, u, p).agreed_price)
    ELSE Price(p)

\* a valid submission of an assignment that was not COMPLETED, with a
\* comparison balance that covers the effective price
CompletionCase ==
    /\ last.op = "SubmitTask"
    /\ last.product \in Products
    /\ ProductStatus(last.product) = "ACTIVE"
    /\ ~IsNull(pre.user_level[Participant])
    /\ ~WasPreviouslyCompleted(pre, Participant, last.product)
    /\ ComparisonBalance(pre, Participant, last.product)
           >= EffectivePrice(pre, Participant, last.product)

\* C19: when the comparison balance is at least the effective price and the
\* assignment is not already COMPLETED, the submission sets status COMPLETED
\* with completed_at set, clears balance_frozen and balance_frozen_amount,
\* and increases completed_products_count by exactly 1
C19_CompletionTransition ==
    CompletionCase =>
        /\ HasReview(Rows, Participant, last.product)
        /\ Review(Rows, Participant, last.product).status = "COMPLETED"
        /\ Review(Rows, Participant, last.product).completed_at = Some(today)
        /\ ~balance_frozen[Participant]
        /\ IsNull(balance_frozen_amount[Participant])
        /\ completed_products_count[Participant]
               = pre.completed_products_count[Participant] + 1

\* a frozen participant completed an assignment against the snapshot: both
\* frozen fields were set before the call
C19_Witness ==
    /\ CompletionCase
    /\ pre.balance_frozen[Participant]
    /\ ~IsNull(pre.balance_frozen_amount[Participant])
    /\ HasReview(pre, Participant, last.product)
    /\ Review(Rows, Participant, last.product).status = "COMPLETED"
    /\ ~balance_frozen[Participant]

\* a submission took an assignment from PENDING to COMPLETED
PendingCompleted ==
    /\ last.op = "SubmitTask"
    /\ HasReview(pre, Participant, last.product)
    /\ Review(pre, Participant, last.product).status = "PENDING"
    /\ HasReview(Rows, Participant, last.product)
    /\ Review(Rows, Participant, last.product).status = "COMPLETED"

\* C20: on every PENDING to COMPLETED transition the participant's live
\* balance after the call is the live balance before the call plus the
\* commission amount (effective price x rate / 100), whether the participant
\* was frozen or not and whatever was credited since the freeze
C20_CommissionCredit ==
    PendingCompleted =>
        balance[Participant] =
            Quantize(pre.balance[Participant] * 100
                       + CommissionAmount(pre, Participant, last.product), 100)

\* an already frozen participant made a valid submission that the comparison
\* balance does not cover
FrozenUnaffordable ==
    /\ last.op = "SubmitTask"
    /\ last.product \in Products
    /\ ProductStatus(last.product) = "ACTIVE"
    /\ ~IsNull(pre.user_level[Participant])
    /\ pre.balance_frozen[Participant]
    /\ ComparisonBalance(pre, Participant, last.product)
           < EffectivePrice(pre, Participant, last.product)

\* C21: no second debit while frozen: when an already frozen participant
\* submits a task the comparison balance does not cover, the assignment is
\* PENDING with use_frozen_commission set, and the participant's balance,
\* balance_frozen_amount and balance_frozen are what they were before
C21_NoSecondDebit ==
    FrozenUnaffordable =>
        /\ HasReview(Rows, Participant, last.product)
        /\ Review(Rows, Participant, last.product).status = "PENDING"
        /\ Review(Rows, Participant, last.product).use_frozen_commission
        /\ balance[Participant] = pre.balance[Participant]
        /\ balance_frozen_amount[Participant] = pre.balance_frozen_amount[Participant]
        /\ balance_frozen[Participant]

\* a frozen participant submitted a second, different task that was not
\* affordable: it has a new PENDING row and the balance stayed
C21_Witness ==
    /\ FrozenUnaffordable
    /\ ~HasReview(pre, Participant, last.product)
    /\ Review(Rows, Participant, last.product).status = "PENDING"
    /\ balance[Participant] = pre.balance[Participant]
    /\ balance[Participant] < 0

\* the rate the assignment is to be paid at: the level's frozen rate, or 6
\* when the level has none, for an assignment that was marked for the frozen
\* rate before the submission; the level's normal rate otherwise
RateDue(s, u, p) ==
    LET lv == Val(s.user_level[u])
    IN  IF HasReview(s, u, p) /\ Review(s, u, p).use_frozen_commission
        THEN IF IsNull(s.frozen_commission_rate[lv]) THEN 6
             ELSE Val(s.frozen_commission_rate[lv])
        ELSE s.commission_rate[lv]

\* a valid submission took an assignment that was not COMPLETED to COMPLETED
Completion ==
    /\ last.op = "SubmitTask"
    /\ last.product \in Products
    /\ ~IsNull(pre.user_level[Participant])
    /\ ~WasPreviouslyCompleted(pre, Participant, last.product)
    /\ HasReview(Rows, Participant, last.product)
    /\ Review(Rows, Participant, last.product).status = "COMPLETED"

PinOfCompleted ==
    /\ last.op \in { "InsertForUser", "AddContinuousOrder", "ReplaceNextOrder" }
    /\ ~IsNull(pre.user_level[Participant])
    /\ HasReview(pre, Participant, last.product)
    /\ Review(pre, Participant, last.product).status = "COMPLETED"

\* the assignment of product p is open again at a position
Reopened(p) ==
    /\ HasReview(Rows, Participant, p)
    /\ Review(Rows, Participant, p).use_actual_price
    /\ ~IsNull(Review(Rows, Participant, p).position)
    /\ Review(Rows, Participant, p).status = "PENDING"
    /\ Review(Rows, Participant, p).commission_earned = 0
    /\ IsNull(Review(Rows, Participant, p).completed_at)

\* C23: every participant pin re-opens a completed template: after
\* insert_product_at_position with a user, admin_add_product_to_continuous_order
\* or admin_replace_next_order names a template whose assignment is COMPLETED,
\* the assignment has use_actual_price set, a position, status PENDING,
\* commission_earned 0 and no completed_at
C23_PinReopens == PinOfCompleted => Reopened(last.product)

\* the threshold as the level gives it: start_continuous_orders_after, or
\* max(0, min_orders - 10) when it is unset
LevelThreshold(s, u) ==
    LET lv == Val(s.user_level[u])
    IN  IF ~IsNull(s.start_continuous_orders_after[lv])
        THEN Val(s.start_continuous_orders_after[lv])
        ELSE IF MinOrders(lv) - 10 > 0 THEN MinOrders(lv) - 10 ELSE 0

\* the participant's templates with a position of at least from
PinnedFrom(s, from) ==
    { q \in Products : /\ HasReview(s, Participant, q)
                       /\ ~IsNull(Review(s, Participant, q).position)
                       /\ Val(Review(s, Participant, q).position) >= from }

\* an add to the continuous order that was carried out
Added == last.op = "AddContinuousOrder" /\ ~IsNull(pre.user_level[Participant])

\* the add gave the template position t + 1 + the number of assignments
\* positioned at t + 1 or later; and when the positioned assignments were the
\* m templates at t + 1 .. t + m, the new template is at t + m + 1 and the
\* others stay where they were
AppendedAfter(t) ==
    LET p == last.product
        held == PinnedFrom(pre, t + 1)
    IN  /\ HasReview(Rows, Participant, p)
        /\ Review(Rows, Participant, p).position = Some(t + 1 + Cardinality(held))
        /\ ( /\ p \notin held
             /\ PinnedFrom(pre, 0 - 1) = held
             /\ { Val(Review(pre, Participant, q).position) : q \in held }
                    = (t + 1) .. (t + Cardinality(held)) )
           => /\ \A q \in held : Review(Rows, Participant, q).position
                                     = Review(pre, Participant, q).position
              /\ Val(Review(Rows, Participant, p).position)
                     \notin (t + 1) .. (t + Cardinality(held))

\* C24 as stated: each add assigns position threshold + 1 + (number of the
\* participant's assignments with position >= threshold + 1), threshold being
\* the level's start_continuous_orders_after, or max(0, min_orders - 10) when
\* unset, so k adds of distinct templates get threshold + 1 .. threshold + k
C24_SequentialAppend ==
    Added => AppendedAfter(LevelThreshold(pre, Participant))

\* C24 amended: the same with threshold max(0, start_continuous_orders_after)
\* when the level sets one
C24_ClampedAppend ==
    Added => AppendedAfter(Max(0, LevelThreshold(pre, Participant)))

\* with threshold 1 and one template at position 2, a second template was
\* added and is at position 3
C24_Witness ==
    /\ Added
    /\ LevelThreshold(pre, Participant) = 1
    /\ \E q \in Products \ { last.product } :
           /\ PinnedFrom(pre, 0) = { q }
           /\ Review(pre, Participant, q).position = Some(2)
           /\ Review(Rows, Participant, q).position = Some(2)
    /\ ~HasReview(pre, Participant, last.product)
    /\ Review(Rows, Participant, last.product).position = Some(3)

\* the participant's assignment of q before and after the call
Before(q) == Review(pre, Participant, q)
After(q) == Review(Rows, Participant, q)

\* C25: after admin_reset_continuous_orders no assignment of the participant
\* has a position >= threshold + 1 and every cleared assignment has
\* use_actual_price false; if the participant has no level, no assignment has
\* a position at all; assignments pinned below threshold + 1 keep position
\* and flags, and status, agreed_price and commission_earned of every
\* assignment are unchanged
C25_ResetContinuousFrame ==
    last.op = "ResetContinuousOrders" =>
        /\ \A q \in Products :
               /\ HasReview(Rows, Participant, q) = HasReview(pre, Participant, q)
               /\ HasReview(pre, Participant, q) =>
                      /\ After(q).status = Before(q).status
                      /\ After(q).agreed_price = Before(q).agreed_price
                      /\ After(q).commission_earned = Before(q).commission_earned
                      /\ (~IsNull(Before(q).position) /\ IsNull(After(q).position))
                             => ~After(q).use_actual_price
        /\ IsNull(pre.user_level[Participant]) =>
               \A q \in Products :
                   HasReview(Rows, Participant, q) => IsNull(After(q).position)
        /\ ~IsNull(pre.user_level[Participant]) =>
               LET t == LevelThreshold(pre, Participant)
               IN  \A q \in Products :
                       HasReview(pre, Participant, q) =>
                           IF q \in PinnedFrom(pre, t + 1)
                           THEN IsNull(After(q).position)
                           ELSE /\ After(q).position = Before(q).position
                                /\ After(q).use_actual_price = Before(q).use_actual_price

\* the positions above n at which the participant has an ACTIVE template pinned
PinnedBeyond(s, n) ==
    { k \in (n + 1) .. (n + Cardinality(Products) + MaxPosition) :
        PinnedAt(s, Participant, k) # {} }

\* C26: every slot of the queue is filled: for a participant whose level has
\* min_orders = n, with at least n ACTIVE templates in the catalog, the queue
\* the dashboard builds has one template for each slot 1 .. n and one entry
\* for each pinned position above n, whatever the operator has pinned
C26_SlotsFilled ==
    ( /\ last.op = "GetNextTasks"
      /\ ~IsNull(pre.user_level[Participant])
      /\ Cardinality(ActiveProducts) >= MinOrders(Val(pre.user_level[Participant])) )
    => LET n == MinOrders(Val(pre.user_level[Participant]))
       IN  Len(last.arg[2]) = n + Cardinality(PinnedBeyond(pre, n))

\* the dashboard was asked for the next task (limit 1, offset 0)
NextTaskAsked == last.op = "GetNextTasks" /\ last.arg[1] = 1

\* the participant's assignment of p was COMPLETED before the call
DoneBefore(p) ==
    HasReview(pre, Participant, p) /\ Review(pre, Participant, p).status = "COMPLETED"

\* C27: the dashboard with limit 1 and offset 0 returns the template of the
\* lowest-numbered slot of the queue whose assignment is not COMPLETED, and
\* nothing only when every slot's assignment is COMPLETED; a position with a
\* pin of an ACTIVE template holds one of the templates pinned there, pins
\* come in the order of their positions, and a pin at position k has fewer
\* than k slots before it
C27_NextTask ==
    NextTaskAsked =>
        LET queue == last.arg[2]
            returned == last.arg[3]
        IN  /\ returned = << >> <=> \A i \in DOMAIN queue : DoneBefore(queue[i])
            /\ returned # << >> =>
                   /\ Len(returned) = 1
                   /\ \E i \in DOMAIN queue :
                          /\ queue[i] = returned[1]
                          /\ ~DoneBefore(queue[i])
                          /\ \A j \in 1 .. (i - 1) : DoneBefore(queue[j])
            /\ ~IsNull(pre.user_level[Participant]) =>
                   \A k \in 1 .. (MaxPosition + Cardinality(Products)) :
                       PinnedAt(pre, Participant, k) # {} =>
                           \E i \in DOMAIN queue :
                               /\ queue[i] \in PinnedAt(pre, Participant, k)
                               /\ i <= k
                               /\ \A j \in 1 .. (i - 1) :
                                      \A k2 \in (k + 1) .. (MaxPosition + Cardinality(Products)) :
                                          queue[j] \notin PinnedAt(pre, Participant, k2)
                                          \/ queue[j] \in PinnedAt(pre, Participant, k)

\* the first slot's assignment was COMPLETED and the next task returned is
\* the template of the second slot, an operator's pin
C27_Witness ==
    /\ NextTaskAsked
    /\ Len(last.arg[2]) >= 2
    /\ DoneBefore(last.arg[2][1])
    /\ last.arg[3] = << last.arg[2][2] >>
    /\ \E k \in 1 .. MaxPosition : last.arg[2][2] \in PinnedAt(pre, Participant, k)

\* C28: queue positions are unique per participant: after any sequence of
\* pins with insert_product_at_position, adds to the continuous order,
\* replacements of the next order, resets and changes of the level's
\* start_continuous_orders_after, no two assignments of the participant have
\* the same non-null position
C28_PositionsUnique ==
    \A p, q \in Products :
        ( /\ p # q
          /\ HasReview(Rows, Participant, p)
          /\ HasReview(Rows, Participant, q)
          /\ ~IsNull(Review(Rows, Participant, p).position) )
        => Review(Rows, Participant, p).position # Review(Rows, Participant, q).position

\* C29: a frozen participant always has a task to unfreeze with: whenever
\* balance_frozen is true the participant has an assignment with status
\* PENDING and use_frozen_commission set
C29_FrozenHasPendingTask ==
    balance_frozen[Participant] =>
        \E p \in Products :
            /\ HasReview(Rows, Participant, p)
            /\ Review(Rows, Participant, p).status = "PENDING"
            /\ Review(Rows, Participant, p).use_frozen_commission

\* the participant's COMPLETED assignments
CompletedAssignments ==
    { p \in Products : /\ HasReview(Rows, Participant, p)
                       /\ Review(Rows, Participant, p).status = "COMPLETED" }

\* C30: the progress counter never under-counts: starting with
\* completed_products_count equal to the number of the participant's COMPLETED
\* assignments, it is at least that number in every reachable state
C30_CounterNeverUnder ==
    completed_products_count[Participant] >= Cardinality(CompletedAssignments)

====
